---- MODULE Spec2Model ----
(***************************************************************************)
(* One invocation of GetCertsFromPki::resilient_vault_request              *)
(* (src/broker/src/crypto.rs), together with the health probe              *)
(* check_vault_health it calls and the vault/network that answers, as      *)
(* called by the methods of GetCerts for GetCertsFromPki; and the           *)
(* construction of the client by build_hyper_client                        *)
(* (src/shared/src/http_proxy.rs).                                         *)
(*                                                                         *)
(* u32 values (tries, max_tries and the observation counters) are kept at  *)
(* their full width as two 16-bit limbs <<hi, lo>>, value hi * 65536 + lo. *)
(***************************************************************************)
EXTENDS Integers, Sequences, FiniteSets

VARIABLES
    arg,          \* the max_tries argument: None or Some(n)
    tries,        \* loop variable of `for tries in 0..max_tries`
    pc,           \* position of the async fn
    resp,         \* outcome of the last primary request
    probeIn,      \* outcome of the last GET sys/health
    health,       \* what check_vault_health returned for probeIn
    last_attempt, \* primary outcome and health result of the last attempt that ended in `continue`
    result,       \* value returned by resilient_vault_request
    primaries,    \* primary requests issued so far
    probes,       \* health-probe requests issued so far
    sleeps,       \* 1-second sleeps started so far
    unsealed,     \* vault and network are up for good: every primary request is answered 2xx
    gateway,      \* self: the GetCertsFromPki the call is made on
    op,           \* the method called, with its arguments
    sent,         \* the requests handed to hyper_client so far
    inflight,     \* the requests handed to hyper_client and not yet completed
    health_gets,  \* GET sys/health requests issued so far
    build_in,     \* what GetCertsFromPki::new() finds: certificates, proxy environment, directory
    client_result,\* what build_hyper_client returned for build_in
    new_result,   \* what GetCertsFromPki::new() returned for build_in
    body,         \* what body::to_bytes gave the gateway method
    ret,          \* value returned by the gateway method
    other         \* a second call of the same method on the same value, running concurrently

\* what resilient_vault_request only reads
call_frame == <<gateway, op, build_in, client_result, new_result, body, ret, other>>

vars == <<arg, tries, pc, resp, probeIn, health, last_attempt, result,
          primaries, probes, sleeps, unsealed, gateway, op, sent, inflight, health_gets,
          build_in, client_result, new_result, body, ret, other>>

\* ---------------------------------------------------------------- bounds
\* most certificates in ca_certificates, most proxies in the environment
MaxCerts == 2
MaxProxies == 2
\* most serials in the data.keys of a list response
MaxKeys == 2
\* largest explicit max_tries argument explored
MaxN == 3
\* retryable outcomes are delivered one by one while tries < MaxRetries ...
MaxRetries == 3
\* ... and again during the last MaxD iterations before max_tries
MaxD == 2

\* ------------------------------------------------------------ u32 values
U32(n) == <<n \div 65536, n % 65536>>

\* u32::MAX = 4294967295
U32_MAX == <<65535, 65535>>

u32_lt(a, b) == a[1] < b[1] \/ (a[1] = b[1] /\ a[2] < b[2])

u32_le(a, b) == a = b \/ u32_lt(a, b)

\* a + b, for a sum that fits 32 bits
u32_add(a, b) ==
    LET s == a[2] + b[2]
    IN  <<a[1] + b[1] + (s \div 65536), s % 65536>>

\* a - b, for b <= a
u32_sub(a, b) ==
    LET borrow == IF a[2] < b[2] THEN 1 ELSE 0
    IN  <<a[1] - b[1] - borrow, a[2] + 65536 * borrow - b[2]>>

\* a - b, or 0 when b > a
u32_saturating_sub(a, b) == IF u32_lt(a, b) THEN U32(0) ELSE u32_sub(a, b)

\* whether a + b exceeds u32::MAX
u32_add_overflows(a, b) == u32_lt(u32_sub(U32_MAX, a), b)

\* ------------------------------------------------------------ Option<u32>
None == [tag |-> "None"]

Some(x) == [tag |-> "Some", value |-> x]

unwrap_or(opt, default) == IF opt = None THEN default ELSE opt.value

\* ---------------------------------------------------------- status codes
StatusCodes == {100, 200, 299, 300, 399, 400, 499, 500, 501, 503}

\* mutant: only 200 OK counts as success
is_success_only_200(code) == code = 200

is_success(code) == 200 <= code /\ code < 300

is_redirection(code) == 300 <= code /\ code < 400

\* mutant: the lower end of the 4xx range is left out
is_client_error_above_400(code) == 400 < code /\ code < 500

is_client_error(code) == 400 <= code /\ code < 500

NOT_IMPLEMENTED == 501

SERVICE_UNAVAILABLE == 503

\* ------------------------------------------------------- Location header
\* a header value is a sequence of bytes; "ht" and "h\xE9"
HeaderValues == {<<104, 116>>, <<104, 233>>}

\* headers().get(LOCATION): None when absent, Some(bytes) when present
LocationHeaders == {None} \cup {Some(h) : h \in HeaderValues}

\* HeaderValue::to_str: the bytes as text when all are visible ASCII or tab
to_str(h) ==
    IF \A i \in 1..Len(h) : (32 <= h[i] /\ h[i] < 127) \/ h[i] = 9
    THEN [ok |-> TRUE, text |-> h]
    ELSE [ok |-> FALSE, text |-> <<>>]

GarbledLocation == [sentinel |-> "(garbled Location header)", text |-> <<>>]

NoLocation == [sentinel |-> "(no Location header present)", text |-> <<>>]

\* lines 43-47: the location reported for a redirecting health answer
location_of(header) ==
    IF header = None THEN NoLocation
    ELSE LET s == to_str(header.value)
         IN  IF s.ok THEN [sentinel |-> "", text |-> s.text] ELSE GarbledLocation

\* ----------------------------------------------------------------- errors
VaultUnreachable == [tag |-> "VaultUnreachable"]

VaultNotInitialized == [tag |-> "VaultNotInitialized"]

VaultSealed == [tag |-> "VaultSealed"]

VaultRedirectError(code, location) ==
    [tag |-> "VaultRedirectError", code |-> code, location |-> location]

VaultOtherError(what, detail) ==
    [tag |-> "VaultOtherError", what |-> what, detail |-> detail]

Ok(x) == [tag |-> "Ok", value |-> x]

Err(e) == [tag |-> "Err", error |-> e]

\* ------------------------------------------------ answers of the network
TransportError == [tag |-> "TransportError"]

Response(code, header) == [tag |-> "Response", status |-> code, location |-> header]

Responses == {Response(c, h) : c \in StatusCodes, h \in LocationHeaders}

Outcomes == {TransportError} \cup Responses

\* mutant: every 5xx answer of the health endpoint is read as sealed
check_vault_health_any_5xx_sealed(outcome) ==
    IF outcome.tag = "TransportError" THEN Err(VaultUnreachable)
    ELSE LET code == outcome.status
         IN  IF is_success(code) THEN Ok("unit")
             ELSE IF is_redirection(code)
                  THEN Err(VaultRedirectError(code, location_of(outcome.location)))
             ELSE IF code = NOT_IMPLEMENTED THEN Err(VaultNotInitialized)
             ELSE IF code >= 500 THEN Err(VaultSealed)
             ELSE Err(VaultOtherError("Vault healthcheck returned statuscode", code))

\* --------------------------------------------------- check_vault_health
check_vault_health(outcome) ==
    IF outcome.tag = "TransportError" THEN Err(VaultUnreachable)
    ELSE LET code == outcome.status
         IN  IF is_success(code) THEN Ok("unit")
             ELSE IF is_redirection(code)
                  THEN Err(VaultRedirectError(code, location_of(outcome.location)))
             ELSE IF code = NOT_IMPLEMENTED THEN Err(VaultNotInitialized)
             ELSE IF code = SERVICE_UNAVAILABLE THEN Err(VaultSealed)
             ELSE Err(VaultOtherError("Vault healthcheck returned statuscode", code))

\* ------------------------------------------------------------- requests
\* config::CONFIG_CENTRAL, as far as this file reads it
CONFIG_CENTRAL ==
    [pki_token |-> "pki-token",
     pki_realm |-> "samply_pki",
     pki_address |-> [scheme |-> "https", authority |-> "vault:8200"]]

\* env!("SAMPLY_USER_AGENT")
SAMPLY_USER_AGENT == "Samply.Beam"

\* lines 165-171: scheme and authority of pki_address, path "/v1/" + location;
\* a path is the sequence of the pieces format! joins
pki_url_builder(location) ==
    [scheme |-> CONFIG_CENTRAL.pki_address.scheme,
     authority |-> CONFIG_CENTRAL.pki_address.authority,
     path_and_query |-> <<"/v1/">> \o location]

\* lines 64-69: the request of one attempt; headers are (name, value) pairs
primary_request(method, uri) ==
    [method |-> method,
     uri |-> uri,
     headers |-> {<<"X-Vault-Token", CONFIG_CENTRAL.pki_token>>,
                  <<"User-Agent", SAMPLY_USER_AGENT>>},
     body |-> "empty"]

\* lines 34-36: hyper_client.get(url), a GET of the URL and nothing else
health_request ==
    [method |-> "GET",
     uri |-> pki_url_builder(<<"sys/health">>),
     headers |-> {},
     body |-> "empty"]

\* ------------------------------------------------- build_hyper_client
Panic(msg) == [tag |-> "Panic", msg |-> msg]

\* std::io::Error::new(ErrorKind::Other, msg)
io_error(msg) == [tag |-> "io::Error", msg |-> msg]

\* sequences over S of length at most n
SeqUpTo(S, n) == UNION {[1..k -> S] : k \in 0..n}

\* an X509 whose conversion to a native_tls Certificate succeeds or fails
Certs == {[name |-> "ca-1", converts |-> TRUE], [name |-> "ca-2", converts |-> FALSE]}

ProxyUris == {"http://proxy-a:3128/", "http://proxy-b:3128/"}

\* what mz_http_proxy's connector() finds in the environment
ProxyEnvs ==
    {[tag |-> "Err"]} \cup {[tag |-> "Ok", proxies |-> ps] : ps \in SeqUpTo(ProxyUris, MaxProxies)}

\* CONFIG_CENTRAL.tls_ca_certificates_dir and what read_dir finds there:
\* no directory, an unreadable one, or entries that are readable, fail, or
\* have a path that is not UTF-8
CertDirs ==
    {None, Some([readable |-> FALSE, entries |-> <<>>])}
        \cup {Some([readable |-> TRUE, entries |-> es]) :
                  es \in SeqUpTo({"file", "io_error", "non_utf8_path"}, 1)}

BuildInputs ==
    [ca_certificates : SeqUpTo(Certs, MaxCerts),
     proxy_env : ProxyEnvs,
     tls_builds : BOOLEAN,
     dir : CertDirs]

\* mutant: certificates without a proxy are accepted
build_hyper_client_no_proxy_check(ca_certificates, proxy_env, tls_builds) ==
    IF proxy_env.tag = "Err" THEN Panic("Unable to build HTTP client")
    ELSE IF \E i \in 1..Len(ca_certificates) : ~ca_certificates[i].converts
    THEN Panic("Internal Error: Unable to convert Certificate.")
    ELSE IF ca_certificates # <<>> /\ ~tls_builds
    THEN Err(io_error("Unable to build TLS Connector with custom CA certificates"))
    ELSE Ok([proxies |-> proxy_env.proxies,
             tls |-> IF ca_certificates # <<>> THEN Some(ca_certificates) ELSE None])

\* src/shared/src/http_proxy.rs lines 14-56
build_hyper_client(ca_certificates, proxy_env, tls_builds) ==
    IF proxy_env.tag = "Err" THEN Panic("Unable to build HTTP client")
    ELSE IF \E i \in 1..Len(ca_certificates) : ~ca_certificates[i].converts
    THEN Panic("Internal Error: Unable to convert Certificate.")
    ELSE IF ca_certificates # <<>> /\ ~tls_builds
    THEN Err(io_error("Unable to build TLS Connector with custom CA certificates"))
    ELSE LET proxies == {proxy_env.proxies[i] : i \in 1..Len(proxy_env.proxies)}
         IN  IF Cardinality(proxies) = 0 /\ Len(ca_certificates) > 0
             THEN Err(io_error("Certificates for TLS termination were provided but no proxy to use"))
             ELSE Ok([proxies |-> proxy_env.proxies,
                      tls |-> IF ca_certificates # <<>> THEN Some(ca_certificates) ELSE None])

\* http_client::build, which new() calls: the Secure Transport Builder
http_client_build(ca_certificates, proxy_env, tls_builds) ==
    build_hyper_client(ca_certificates, proxy_env, tls_builds)

\* ---------------------------------------------------------- the Gateway
Serials == {"serial-A", "serial-B"}

\* the calls of resilient_vault_request in the three methods (lines 114, 125, 135)
certificate_list ==
    [name |-> "certificate_list", method |-> "LIST",
     api_path |-> <<CONFIG_CENTRAL.pki_realm, "/certs">>, max_tries |-> None]

certificate_by_serial_as_pem(self, serial) ==
    [name |-> "certificate_by_serial_as_pem", method |-> "GET",
     api_path |-> <<self.pki_realm, "/cert/", serial, "/raw/pem">>, max_tries |-> None]

im_certificate_as_pem(self) ==
    [name |-> "im_certificate_as_pem", method |-> "GET",
     api_path |-> <<self.pki_realm, "/ca/pem">>, max_tries |-> None]

GatewayCalls(self) ==
    {certificate_list, im_certificate_as_pem(self)}
        \cup {certificate_by_serial_as_pem(self, serial) : serial \in Serials}

\* a call of resilient_vault_request itself, with any max_tries
direct_call(max) ==
    [name |-> "resilient_vault_request", method |-> "GET",
     api_path |-> <<CONFIG_CENTRAL.pki_realm, "/ca/pem">>, max_tries |-> max]

\* the method is one of the three of impl GetCerts
is_gateway_call(o) == o.name # "resilient_vault_request"

\* ---- response bodies
\* JSON values
Null == [t |-> "null"]
Str(x) == [t |-> "str", v |-> x]
Num(n) == [t |-> "num", v |-> n]
Bool(b) == [t |-> "bool", v |-> b]
Arr(xs) == [t |-> "arr", v |-> xs]
Obj(o) == [t |-> "obj", v |-> o]
\* bytes that are not JSON
Malformed == [t |-> "malformed"]

RequiredFields == {"request_id", "lease_id", "renewable", "lease_duration"}

KeySeqs == SeqUpTo(Serials, MaxKeys)

\* a list response with the given top-level fields
ListDoc(fields, keys, renewable, warnings) ==
    Obj([f \in fields |->
            CASE f = "request_id" -> Str("req-1")
              [] f = "lease_id" -> Str("")
              [] f = "renewable" -> renewable
              [] f = "lease_duration" -> Num(0)
              [] f = "data" -> Obj([g \in {"keys"} |-> Arr([i \in 1..Len(keys) |-> Str(keys[i])])])
              [] f = "warnings" -> warnings
              [] OTHER -> Str("kv")])

\* the bodies a list request is answered with
ListBodies ==
    {Malformed, Arr(<<>>), ListDoc(RequiredFields, <<>>, Bool(FALSE), Null)}
        \cup {ListDoc(RequiredFields \cup {"data"}, ks, Bool(FALSE), Null) : ks \in KeySeqs}
        \cup {ListDoc(fs \cup {"data"}, <<"serial-A", "serial-B">>, Bool(FALSE), Null) :
                  fs \in {{}, RequiredFields \ {"lease_duration"}}}
        \cup {ListDoc(RequiredFields \cup {"data", "warnings"}, <<"serial-A">>, Bool(TRUE), w) :
                  w \in {Null, Str("deprecated"), Num(1)}}
        \cup {ListDoc(RequiredFields \cup {"data"}, <<"serial-A">>, Str("yes"), Null),
              ListDoc(RequiredFields \cup {"data", "mount_type"}, <<"serial-B">>, Bool(TRUE), Null)}

\* the bodies a certificate request is answered with, as bytes: empty, "--",
\* two- and three-byte characters, and sequences that are not UTF-8
PemBodies ==
    {<<>>, <<45, 45>>, <<45, 195, 169>>, <<226, 130, 172>>,
     <<255>>, <<45, 195>>, <<192, 128>>, <<237, 160, 128>>, <<45, 128>>}

\* a body stream that fails while it is read
BodyError == Err("hyper::Error")

BodyReads(o) ==
    {BodyError} \cup {Ok(b) : b \in IF o.name = "certificate_list" THEN ListBodies ELSE PemBodies}

\* the field is absent, null or a string: Option<String>
option_string(o, f) == f \notin DOMAIN o \/ o[f].t \in {"null", "str"}

key_holder(j) ==
    /\ j.t = "obj"
    /\ "keys" \in DOMAIN j.v
    /\ j.v["keys"].t = "arr"
    /\ \A i \in 1..Len(j.v["keys"].v) : j.v["keys"].v[i].t = "str"

\* lines 18-30: serde_json::from_slice::<PkiListResponse>
from_slice(bytes) ==
    IF bytes.t = "malformed" THEN Err("expected value")
    ELSE IF bytes.t # "obj" THEN Err("invalid type")
    ELSE LET o == bytes.v
         IN  IF /\ "request_id" \in DOMAIN o /\ o["request_id"].t = "str"
                /\ "lease_id" \in DOMAIN o /\ o["lease_id"].t = "str"
                /\ "renewable" \in DOMAIN o /\ o["renewable"].t = "bool"
                /\ "lease_duration" \in DOMAIN o /\ o["lease_duration"].t = "num"
                /\ o["lease_duration"].v >= 0
                /\ "data" \in DOMAIN o /\ key_holder(o["data"])
                /\ option_string(o, "wrap_info")
                /\ option_string(o, "warnings")
                /\ option_string(o, "auth")
             THEN Ok([request_id |-> o["request_id"].v,
                      lease_id |-> o["lease_id"].v,
                      renewable |-> o["renewable"].v,
                      lease_duration |-> o["lease_duration"].v,
                      data |-> [keys |-> [i \in 1..Len(o["data"].v["keys"].v) |->
                                             o["data"].v["keys"].v[i].v]]])
             ELSE Err("missing field or invalid type")

continuation(b) == b \in 128..191

\* length of the well-formed UTF-8 sequence that starts at bytes[i], 0 if none
utf8_char_len(bytes, i) ==
    LET n == Len(bytes)
        b0 == bytes[i]
        b1 == bytes[i + 1]
        tail(k) == i + k <= n /\ \A j \in 2..k : continuation(bytes[i + j])
    IN  IF b0 < 128 THEN 1
        ELSE IF b0 \in 194..223 /\ tail(1) /\ continuation(b1) THEN 2
        ELSE IF b0 = 224 /\ tail(2) /\ b1 \in 160..191 THEN 3
        ELSE IF b0 \in (225..236) \cup (238..239) /\ tail(2) /\ continuation(b1) THEN 3
        ELSE IF b0 = 237 /\ tail(2) /\ b1 \in 128..159 THEN 3
        ELSE IF b0 = 240 /\ tail(3) /\ b1 \in 144..191 THEN 4
        ELSE IF b0 \in 241..243 /\ tail(3) /\ continuation(b1) THEN 4
        ELSE IF b0 = 244 /\ tail(3) /\ b1 \in 128..143 THEN 4
        ELSE 0

RECURSIVE utf8_valid_from(_, _)
utf8_valid_from(bytes, i) ==
    IF i > Len(bytes) THEN TRUE
    ELSE LET k == utf8_char_len(bytes, i)
         IN  k > 0 /\ utf8_valid_from(bytes, i + k)

RECURSIVE utf8_valid_prefix(_, _)
utf8_valid_prefix(bytes, i) ==
    IF i > Len(bytes) \/ utf8_char_len(bytes, i) = 0 THEN i - 1
    ELSE utf8_valid_prefix(bytes, i + utf8_char_len(bytes, i))

\* mutant: the bytes up to the first invalid one are kept
from_utf8_valid_prefix(bytes) == Ok(SubSeq(bytes, 1, utf8_valid_prefix(bytes, 1)))

\* String::from_utf8: the same bytes as a String, or FromUtf8Error
from_utf8(bytes) ==
    IF utf8_valid_from(bytes, 1) THEN Ok(bytes) ELSE Err("FromUtf8Error")

\* lines 115-120, 126-130, 136-140: what the method makes of the body
parse_body(o, b) ==
    IF b.tag = "Err"
    THEN Err(VaultOtherError("Cannot retrieve", b.error))
    ELSE IF o.name = "certificate_list"
    THEN LET parsed == from_slice(b.value)
         IN  IF parsed.tag = "Err"
             THEN Err(VaultOtherError("Cannot deserialize vault certificate list", parsed.error))
             ELSE Ok(parsed.value.data.keys)
    ELSE LET parsed == from_utf8(b.value)
         IN  IF parsed.tag = "Err"
             THEN Err(VaultOtherError("Cannot parse certificate", parsed.error))
             ELSE Ok(parsed.value)

\* lines 155-157: the GetCertsFromPki that new() returns
GetCertsFromPki(client) == [pki_realm |-> CONFIG_CENTRAL.pki_realm, hyper_client |-> client]

ConfigurationFailed(msg) == [tag |-> "ConfigurationFailed", msg |-> msg]

HttpProxyProblem(e) == [tag |-> "HttpProxyProblem", error |-> e]

\* lines 143-158: GetCertsFromPki::new(), given the result of the build call
new(in, client) ==
    IF in.dir # None /\ ~in.dir.value.readable
    THEN Err(ConfigurationFailed("Unable to read CA certificates"))
    ELSE IF in.dir # None /\ \E i \in 1..Len(in.dir.value.entries) :
                                in.dir.value.entries[i] = "non_utf8_path"
    THEN Panic("called Option::unwrap() on a None value")
    ELSE IF client.tag = "Panic" THEN client
    ELSE IF client.tag = "Err" THEN Err(HttpProxyProblem(client.error))
    ELSE Ok(GetCertsFromPki(client.value))

\* whether new() gets as far as the build call (line 153)
new_builds_client(in) ==
    \/ in.dir = None
    \/ /\ in.dir.value.readable
       /\ \A i \in 1..Len(in.dir.value.entries) : in.dir.value.entries[i] # "non_utf8_path"

\* the configuration of the calls explored: one certificate behind one proxy
DeployedInput ==
    [ca_certificates |-> <<[name |-> "ca-1", converts |-> TRUE]>>,
     proxy_env |-> [tag |-> "Ok", proxies |-> <<"http://proxy-a:3128/">>],
     tls_builds |-> TRUE,
     dir |-> None]

\* ------------------------------------------------ resilient_vault_request
\* mutant: a retry asks for another path
uri_per_attempt ==
    pki_url_builder(IF tries = U32(0) THEN op.api_path ELSE op.api_path \o <<"?retry">>)

\* line 58
uri == pki_url_builder(op.api_path)

max_tries == unwrap_or(arg, U32_MAX)

\* mutant: the inclusive range 0..=max_tries
loop_continues_inclusive(t, max) == u32_le(t, max)

\* the range 0..max_tries yields another value
loop_continues(t, max) == u32_lt(t, max)

\* mutant: the first iteration sleeps too
is_retry_always(t) == TRUE

\* line 61: `if tries > 0`
is_retry(t) == u32_lt(U32(0), t)

\* line 104: the error returned when the loop runs out
exhausted_error(max) == VaultOtherError("Unable to communicate after attempts", max)

\* line 79
client_side_error(code) == VaultOtherError("Vault reported client-side error", code)

\* lines 56-60: a call that has not run yet
NotStarted ==
    [pc |-> "loop", tries |-> U32(0), resp |-> None, result |-> None,
     primaries |-> U32(0), probes |-> U32(0), sleeps |-> U32(0), inflight |-> {}]

\* the retryable outcomes explored one by one
InWindow ==
    \/ u32_lt(tries, U32(MaxRetries))
    \/ u32_le(u32_saturating_sub(max_tries, U32(MaxD)), tries)

Init ==
    /\ arg \in {None, Some(U32_MAX)} \cup {Some(U32(n)) : n \in 0..MaxN}
    /\ tries = U32(0)
    /\ pc = "loop"
    /\ resp = None
    /\ probeIn = None
    /\ health = None
    /\ last_attempt = None
    /\ result = None
    /\ primaries = U32(0)
    /\ probes = U32(0)
    /\ sleeps = U32(0)
    /\ unsealed = FALSE
    /\ build_in = DeployedInput
    /\ client_result = http_client_build(build_in.ca_certificates, build_in.proxy_env,
                                          build_in.tls_builds)
    /\ new_result = new(build_in, client_result)
    /\ gateway = new_result.value
    /\ op \in {direct_call(arg)} \cup {c \in GatewayCalls(gateway) : c.max_tries = arg}
    /\ sent = {}
    /\ inflight = {}
    /\ health_gets = U32(0)
    /\ body = None
    /\ ret = None
    /\ other = NotStarted

\* `continue`: the attempt is over, the range yields the next value
Continue(primary, h) ==
    /\ tries' = u32_add(tries, U32(1))
    /\ last_attempt' = [primary |-> primary, health |-> h]
    /\ pc' = "loop"

\* lines 60, 104-106: the range is used up
Exhausted ==
    /\ pc = "loop"
    /\ ~loop_continues(tries, max_tries)
    /\ result' = Err(exhausted_error(max_tries))
    /\ pc' = "done"
    /\ UNCHANGED <<arg, tries, resp, probeIn, health, last_attempt,
                   primaries, probes, sleeps, unsealed>>
    /\ UNCHANGED <<call_frame, sent, inflight, health_gets>>

\* lines 61-63: every iteration but the first starts with a sleep
Sleep ==
    /\ pc = "loop"
    /\ loop_continues(tries, max_tries)
    /\ is_retry(tries)
    /\ sleeps' = u32_add(sleeps, U32(1))
    /\ pc' = "sleep"
    /\ UNCHANGED <<arg, tries, resp, probeIn, health, last_attempt, result,
                   primaries, probes, unsealed>>
    /\ UNCHANGED <<call_frame, sent, inflight, health_gets>>

\* lines 64-70: build the request and send it
SendPrimary ==
    /\ \/ pc = "sleep"
       \/ pc = "loop" /\ loop_continues(tries, max_tries) /\ ~is_retry(tries)
    /\ primaries' = u32_add(primaries, U32(1))
    /\ resp' = None
    /\ probeIn' = None
    /\ health' = None
    /\ pc' = "primary"
    /\ sent' = sent \cup {primary_request(op.method, uri)}
    /\ inflight' = inflight \cup {primary_request(op.method, uri)}
    /\ UNCHANGED <<arg, tries, last_attempt, result, probes, sleeps, unsealed>>
    /\ UNCHANGED <<call_frame, health_gets>>

\* mutant: the transport error is returned instead of retried
PrimaryFails_returns ==
    /\ pc = "primary"
    /\ ~unsealed
    /\ InWindow
    /\ resp' = TransportError
    /\ result' = Err(VaultUnreachable)
    /\ pc' = "done"
    /\ inflight' = inflight \ {primary_request(op.method, uri)}
    /\ UNCHANGED <<arg, tries, probeIn, health, last_attempt, primaries, probes, sleeps, unsealed>>
    /\ UNCHANGED <<call_frame, sent, health_gets>>

\* lines 71-74: the send failed; warn!(.., tries+2) and continue. tries+2
\* overflows u32 in the last iteration of a loop of u32::MAX iterations: a
\* build with overflow checks panics there, one without wraps and continues.
PrimaryFails ==
    /\ pc = "primary"
    /\ ~unsealed
    /\ InWindow
    /\ resp' = TransportError
    /\ \/ Continue(TransportError, None)
       \/ /\ u32_add_overflows(tries, U32(2))
          /\ pc' = "panicked"
          /\ UNCHANGED <<tries, last_attempt>>
    /\ inflight' = inflight \ {primary_request(op.method, uri)}
    /\ UNCHANGED <<arg, probeIn, health, result, primaries, probes, sleeps, unsealed>>
    /\ UNCHANGED <<call_frame, sent, health_gets>>

\* mutant: a client error is probed like a server error
primary_arm_probes_client_error(code) ==
    IF is_success(code) THEN "return_ok"
    ELSE IF is_redirection(code) THEN "return_err"
    ELSE "check_health"

\* lines 75-81: which arm of `match resp.status()` is taken
primary_arm(code) ==
    IF is_success(code) THEN "return_ok"
    ELSE IF is_client_error(code) \/ is_redirection(code) THEN "return_err"
    ELSE "check_health"

\* lines 75-82: the vault answered the primary request
PrimaryAnswers ==
    /\ pc = "primary"
    /\ \E code \in StatusCodes :
        LET r == Response(code, None)
            arm == primary_arm(code)
        IN  /\ unsealed => is_success(code)
            /\ resp' = r
            /\ \/ /\ arm = "return_ok"
                  /\ result' = Ok(r)
                  /\ pc' = "done"
                  /\ inflight' = inflight \ {primary_request(op.method, uri)}
                  /\ UNCHANGED <<probes, sent, health_gets>>
               \/ /\ arm = "return_err"
                  /\ result' = Err(client_side_error(code))
                  /\ pc' = "done"
                  /\ inflight' = inflight \ {primary_request(op.method, uri)}
                  /\ UNCHANGED <<probes, sent, health_gets>>
               \/ /\ arm = "check_health"
                  /\ InWindow
                  /\ probes' = u32_add(probes, U32(1))
                  /\ health_gets' = u32_add(health_gets, U32(1))
                  /\ sent' = sent \cup {health_request}
                  /\ inflight' = (inflight \ {primary_request(op.method, uri)}) \cup {health_request}
                  /\ pc' = "health"
                  /\ UNCHANGED result
    /\ UNCHANGED <<arg, tries, probeIn, health, last_attempt, primaries, sleeps, unsealed>>
    /\ UNCHANGED call_frame

\* lines 82-100: which arm of `match self.check_vault_health().await` is taken
health_arm(h) ==
    IF h = Err(VaultSealed) THEN "continue"
    ELSE IF h.tag = "Err" /\ h.error.tag = "VaultRedirectError" THEN "return_err"
    ELSE "continue"

\* mutant: the redirect arm reports the primary status
redirect_error_primary_code(primary_code, h) == VaultRedirectError(primary_code, h.error.location)

\* lines 87-88: the error built in the redirect arm; the arm's own `code`
\* shadows the primary status
redirect_error(primary_code, h) == VaultRedirectError(h.error.code, h.error.location)

\* mutant: a sealed vault ends the call with VaultSealed
HealthAnswers_sealed_returns ==
    /\ pc = "health"
    /\ \E o \in Outcomes :
        LET h == check_vault_health(o)
        IN  /\ probeIn' = o
            /\ health' = h
            /\ \/ /\ health_arm(h) = "continue"
                  /\ h # Err(VaultSealed)
                  /\ Continue(resp, h)
                  /\ UNCHANGED result
               \/ /\ h = Err(VaultSealed)
                  /\ result' = h
                  /\ pc' = "done"
                  /\ UNCHANGED <<tries, last_attempt>>
               \/ /\ health_arm(h) = "return_err"
                  /\ result' = Err(redirect_error(resp.status, h))
                  /\ pc' = "done"
                  /\ UNCHANGED <<tries, last_attempt>>
    /\ inflight' = inflight \ {health_request}
    /\ UNCHANGED <<arg, resp, primaries, probes, sleeps, unsealed>>
    /\ UNCHANGED <<call_frame, sent, health_gets>>

\* mutant: every error of the health probe is propagated, as `?` would
HealthAnswers_propagates ==
    /\ pc = "health"
    /\ \E o \in Outcomes :
        LET h == check_vault_health(o)
        IN  /\ probeIn' = o
            /\ health' = h
            /\ \/ /\ h.tag = "Ok"
                  /\ Continue(resp, h)
                  /\ UNCHANGED result
               \/ /\ h.tag = "Err"
                  /\ result' = h
                  /\ pc' = "done"
                  /\ UNCHANGED <<tries, last_attempt>>
    /\ inflight' = inflight \ {health_request}
    /\ UNCHANGED <<arg, resp, primaries, probes, sleeps, unsealed>>
    /\ UNCHANGED <<call_frame, sent, health_gets>>

\* mutant: a probe answered 503 is sent again
HealthAnswers_retries_probe ==
    /\ pc = "health"
    /\ \E o \in Outcomes :
        LET h == check_vault_health(o)
        IN  /\ probeIn' = o
            /\ health' = h
            /\ \/ /\ h = Err(VaultSealed)
                  /\ health_gets' = u32_add(health_gets, U32(1))
                  /\ inflight' = inflight
                  /\ UNCHANGED <<result, pc, tries, last_attempt>>
               \/ /\ health_arm(h) = "continue"
                  /\ h # Err(VaultSealed)
                  /\ Continue(resp, h)
                  /\ inflight' = inflight \ {health_request}
                  /\ UNCHANGED <<result, health_gets>>
               \/ /\ health_arm(h) = "return_err"
                  /\ result' = Err(redirect_error(resp.status, h))
                  /\ pc' = "done"
                  /\ inflight' = inflight \ {health_request}
                  /\ UNCHANGED <<tries, last_attempt, health_gets>>
    /\ UNCHANGED <<arg, resp, primaries, probes, sleeps, unsealed>>
    /\ UNCHANGED <<call_frame, sent>>

\* lines 36-54, 82-100: the health request completed
HealthAnswers ==
    /\ pc = "health"
    /\ \E o \in Outcomes :
        LET h == check_vault_health(o)
        IN  /\ probeIn' = o
            /\ health' = h
            /\ \/ /\ health_arm(h) = "continue"
                  /\ Continue(resp, h)
                  /\ UNCHANGED result
               \/ /\ health_arm(h) = "return_err"
                  /\ result' = Err(redirect_error(resp.status, h))
                  /\ pc' = "done"
                  /\ UNCHANGED <<tries, last_attempt>>
    /\ inflight' = inflight \ {health_request}
    /\ UNCHANGED <<arg, resp, primaries, probes, sleeps, unsealed>>
    /\ UNCHANGED <<call_frame, sent, health_gets>>

\* lines 60-74, repeated: every send fails at transport level until only
\* d iterations are left; the iterations in between taken as one step
FailStreak ==
    /\ pc = "loop"
    /\ ~unsealed
    /\ \E d \in 1..MaxD :
        LET target == u32_saturating_sub(max_tries, U32(d))
            k == u32_sub(target, tries)
        IN  /\ u32_lt(tries, target)
            /\ tries' = target
            /\ primaries' = u32_add(primaries, k)
            /\ sleeps' = IF is_retry(tries) THEN u32_add(sleeps, k)
                          ELSE u32_add(sleeps, u32_sub(k, U32(1)))
    /\ resp' = TransportError
    /\ probeIn' = None
    /\ health' = None
    /\ last_attempt' = [primary |-> TransportError, health |-> None]
    /\ sent' = sent \cup {primary_request(op.method, uri)}
    /\ UNCHANGED <<arg, pc, result, probes, unsealed>>
    /\ UNCHANGED <<call_frame, inflight, health_gets>>

\* the vault is unsealed and reachable from now on
Unseal ==
    /\ ~unsealed
    /\ unsealed' = TRUE
    /\ UNCHANGED <<arg, tries, pc, resp, probeIn, health, last_attempt, result,
                   primaries, probes, sleeps>>
    /\ UNCHANGED <<call_frame, sent, inflight, health_gets>>

\* the steps of the async fn and of the requests it awaits
\* lines 112-141: resilient_vault_request has returned to the gateway method;
\* `?` hands an Err on, otherwise the body is read and parsed
GatewayReturns ==
    /\ is_gateway_call(op)
    /\ pc = "done"
    /\ ret = None
    /\ IF result.tag = "Err"
       THEN body' = None /\ ret' = result
       ELSE \E b \in BodyReads(op) :
               /\ body' = b
               /\ ret' = parse_body(op, b)
    /\ UNCHANGED <<arg, tries, pc, resp, probeIn, health, last_attempt, result,
                   primaries, probes, sleeps, unsealed>>
    /\ UNCHANGED <<gateway, op, build_in, client_result, new_result, sent, inflight,
                   health_gets, other>>

resilient_vault_request ==
    \/ Exhausted
    \/ Sleep
    \/ SendPrimary
    \/ PrimaryFails
    \/ PrimaryAnswers
    \/ HealthAnswers

Next ==
    \/ resilient_vault_request
    \/ GatewayReturns
    \/ FailStreak
    \/ Unseal

Spec == Init /\ [][Next]_vars

\* every request and every sleep completes
FairSpec == Spec /\ WF_vars(resilient_vault_request)

\* ------------------------------------------------------ concurrent calls
\* the variables of the first call
first_call ==
    <<arg, tries, pc, resp, probeIn, health, last_attempt, result, primaries, probes,
      sleeps, unsealed, gateway, op, inflight, health_gets, build_in, client_result,
      new_result, body, ret>>

\* what the second call's requests are answered with
OtherStatusCodes == {200, 404, 503}

OtherHealthOutcomes ==
    {o \in Outcomes : o.tag = "Response" => o.status \in {200, 300, 503}}

\* lines 60, 104-106
OtherExhausted ==
    /\ other.pc = "loop"
    /\ ~loop_continues(other.tries, max_tries)
    /\ other' = [other EXCEPT !.result = Err(exhausted_error(max_tries)), !.pc = "done"]
    /\ UNCHANGED <<first_call, sent>>

\* lines 61-63
OtherSleep ==
    /\ other.pc = "loop"
    /\ loop_continues(other.tries, max_tries)
    /\ is_retry(other.tries)
    /\ other' = [other EXCEPT !.sleeps = u32_add(@, U32(1)), !.pc = "sleep"]
    /\ UNCHANGED <<first_call, sent>>

\* mutant: a request equal to one already in flight is not sent again
OtherSendPrimary_deduplicated ==
    /\ \/ other.pc = "sleep"
       \/ other.pc = "loop" /\ loop_continues(other.tries, max_tries)
                            /\ ~is_retry(other.tries)
    /\ other' = IF primary_request(op.method, uri) \in inflight
                THEN [other EXCEPT !.resp = None, !.pc = "primary"]
                ELSE [other EXCEPT !.primaries = u32_add(@, U32(1)),
                                   !.resp = None,
                                   !.pc = "primary",
                                   !.inflight = @ \cup {primary_request(op.method, uri)}]
    /\ sent' = sent \cup {primary_request(op.method, uri)}
    /\ UNCHANGED first_call

\* lines 64-70
OtherSendPrimary ==
    /\ \/ other.pc = "sleep"
       \/ other.pc = "loop" /\ loop_continues(other.tries, max_tries)
                            /\ ~is_retry(other.tries)
    /\ other' = [other EXCEPT !.primaries = u32_add(@, U32(1)),
                              !.resp = None,
                              !.pc = "primary",
                              !.inflight = @ \cup {primary_request(op.method, uri)}]
    /\ sent' = sent \cup {primary_request(op.method, uri)}
    /\ UNCHANGED first_call

\* lines 71-74
OtherPrimaryFails ==
    /\ other.pc = "primary"
    /\ other' = [other EXCEPT !.resp = TransportError,
                              !.tries = IF u32_add_overflows(other.tries, U32(2))
                                        THEN @ ELSE u32_add(@, U32(1)),
                              !.pc = IF u32_add_overflows(other.tries, U32(2))
                                     THEN "panicked" ELSE "loop",
                              !.inflight = @ \ {primary_request(op.method, uri)}]
    /\ UNCHANGED <<first_call, sent>>

\* lines 75-82
OtherPrimaryAnswers ==
    /\ other.pc = "primary"
    /\ \E code \in OtherStatusCodes :
        LET r == Response(code, None)
            arm == primary_arm(code)
        IN  \/ /\ arm = "return_ok"
               /\ other' = [other EXCEPT !.resp = r, !.result = Ok(r), !.pc = "done",
                                         !.inflight = @ \ {primary_request(op.method, uri)}]
               /\ UNCHANGED sent
            \/ /\ arm = "return_err"
               /\ other' = [other EXCEPT !.resp = r, !.result = Err(client_side_error(code)),
                                         !.pc = "done",
                                         !.inflight = @ \ {primary_request(op.method, uri)}]
               /\ UNCHANGED sent
            \/ /\ arm = "check_health"
               /\ other' = [other EXCEPT !.resp = r,
                                         !.probes = u32_add(@, U32(1)),
                                         !.pc = "health",
                                         !.inflight = (@ \ {primary_request(op.method, uri)})
                                                          \cup {health_request}]
               /\ sent' = sent \cup {health_request}
    /\ UNCHANGED first_call

\* lines 36-54, 82-100
OtherHealthAnswers ==
    /\ other.pc = "health"
    /\ \E o \in OtherHealthOutcomes :
        LET h == check_vault_health(o)
        IN  \/ /\ health_arm(h) = "continue"
               /\ other' = [other EXCEPT !.tries = u32_add(@, U32(1)), !.pc = "loop",
                                         !.inflight = @ \ {health_request}]
            \/ /\ health_arm(h) = "return_err"
               /\ other' = [other EXCEPT !.result = Err(redirect_error(other.resp.status, h)),
                                         !.pc = "done",
                                         !.inflight = @ \ {health_request}]
    /\ UNCHANGED <<first_call, sent>>

\* lines 56-107, for the second call
other_resilient_vault_request ==
    \/ OtherExhausted
    \/ OtherSleep
    \/ OtherSendPrimary
    \/ OtherPrimaryFails
    \/ OtherPrimaryAnswers
    \/ OtherHealthAnswers

\* two calls of resilient_vault_request(GET, <realm>/ca/pem, Some(2)) on one value
ConcInit ==
    /\ Init
    /\ arg = Some(U32(2))
    /\ op = direct_call(arg)

ConcNext ==
    \/ resilient_vault_request
    \/ other_resilient_vault_request

ConcSpec == ConcInit /\ [][ConcNext]_vars

\* ---------------------------------------------------------- construction
\* before GetCertsFromPki::new() has run: nothing built, nothing sent
BuildInit ==
    /\ build_in \in BuildInputs
    /\ client_result = None
    /\ new_result = None
    /\ gateway = None
    /\ arg = Some(U32(2))
    /\ op = direct_call(arg)
    /\ tries = U32(0)
    /\ pc = "loop"
    /\ resp = None
    /\ probeIn = None
    /\ health = None
    /\ last_attempt = None
    /\ result = None
    /\ primaries = U32(0)
    /\ probes = U32(0)
    /\ sleeps = U32(0)
    /\ unsealed = FALSE
    /\ sent = {}
    /\ inflight = {}
    /\ health_gets = U32(0)
    /\ body = None
    /\ ret = None
    /\ other = NotStarted

\* build_cert_getter(): GetCertsFromPki::new() runs once
New ==
    /\ new_result = None
    /\ client_result' = IF new_builds_client(build_in)
                         THEN http_client_build(build_in.ca_certificates, build_in.proxy_env,
                                                build_in.tls_builds)
                         ELSE None
    /\ new_result' = new(build_in, client_result')
    /\ gateway' = IF new_result'.tag = "Ok" THEN new_result'.value ELSE None
    /\ UNCHANGED <<arg, tries, pc, resp, probeIn, health, last_attempt, result,
                   primaries, probes, sleeps, unsealed, op, sent, inflight,
                   health_gets, build_in, body, ret, other>>

\* a method needs the GetCertsFromPki that new() returned
Constructed == new_result.tag = "Ok"

BuildNext ==
    \/ New
    \/ Constructed /\ resilient_vault_request

BuildSpec == BuildInit /\ [][BuildNext]_vars

\* ------------------------------------------------------------ properties
Success == pc = "done" /\ result.tag = "Ok"

IsResponse(o, codes) == o.tag = "Response" /\ o.status \in codes

\* C1: a 2xx answer to the first primary request makes the Executor return
\* Success with that response, after exactly one primary request, no health
\* probe and no sleep.
C1_FirstAttemptSuccess ==
    (tries = U32(0) /\ IsResponse(resp, 200..299)) =>
        /\ pc = "done"
        /\ result = Ok(resp)
        /\ primaries = U32(1)
        /\ probes = U32(0)
        /\ sleeps = U32(0)

C1_Witness ==
    /\ pc = "done"
    /\ tries = U32(0)
    /\ result = Ok(Response(299, None))
    /\ primaries = U32(1)

\* C2: a 3xx or 4xx answer to a primary request ends the call with an error
\* at once: the step that receives it issues no health probe, no request
\* follows it (exactly one request when it answers the first), whatever
\* max_tries is.
C2_ClientErrorIsFatal ==
    [][ IsResponse(resp', 300..499) =>
            /\ pc' = "done"
            /\ result'.tag = "Err"
            /\ result'.error.tag \in {"VaultOtherError", "VaultRedirectError"}
            /\ probes' = probes
            /\ pc = "done" => primaries' = primaries
            /\ tries' = U32(0) => primaries' = U32(1) ]_vars

C2_Witness ==
    /\ arg = None
    /\ pc = "done"
    /\ tries = U32(0)
    /\ IsResponse(resp, {399})
    /\ result.tag = "Err"
    /\ primaries = U32(1)
    /\ probes = U32(0)

\* C3: a primary request that fails at transport level returns no error and
\* issues no health probe, and while attempts are left the loop goes on to
\* the next one.
C3_TransportFailureRetried ==
    [][ (pc = "primary" /\ resp' = TransportError) =>
            /\ result' = None
            /\ pc' # "done"
            /\ probes' = probes
            /\ primaries' = primaries
            /\ u32_lt(u32_add(tries, U32(1)), max_tries) =>
                    /\ pc' = "loop"
                    /\ tries' = u32_add(tries, U32(1)) ]_vars

C3_Witness ==
    /\ pc = "primary"
    /\ last_attempt = [primary |-> TransportError, health |-> None]
    /\ tries = U32(1)
    /\ primaries = U32(2)
    /\ probes = U32(0)

\* C4: max_tries = Some(N) bounds the primary requests by N; the exhaustion
\* error names N and is returned after exactly N requests; a call that ends
\* without a 2xx, 3xx or 4xx answer and without a redirecting probe ends
\* with it; N = 0 sends nothing and N = 1 never retries.
C4_AttemptBudget ==
    arg.tag = "Some" =>
        LET N == arg.value
            exhaustion == Err(VaultOtherError("Unable to communicate after attempts", N))
        IN  /\ u32_le(primaries, N)
            /\ u32_le(tries, N)
            /\ (pc = "done" /\ result = exhaustion) => primaries = N
            /\ (pc = "done" /\ ~IsResponse(resp, 200..499) /\ ~IsResponse(probeIn, 300..399))
                    => (result = exhaustion /\ primaries = N)
            /\ N = U32(0) => (pc \in {"loop", "done"} /\ primaries = U32(0))
            /\ N = U32(1) => (sleeps = U32(0) /\ u32_le(primaries, U32(1)))

C4_Witness ==
    /\ arg = Some(U32(2))
    /\ pc = "done"
    /\ result = Err(VaultOtherError("Unable to communicate after attempts", U32(2)))
    /\ primaries = U32(2)
    /\ sleeps = U32(1)

\* C5: when the health probe after a primary answer outside 2xx-4xx is
\* answered 3xx, the call ends at once with VaultRedirectError carrying the
\* probe's status and location, not the primary's, whatever budget is left.
C5_ProbeRedirectIsFatal ==
    IsResponse(probeIn, 300..399) =>
        /\ pc = "done"
        /\ ~IsResponse(resp, 200..499)
        /\ result.tag = "Err"
        /\ result.error.tag = "VaultRedirectError"
        /\ result.error.code = probeIn.status
        /\ result.error.code # resp.status
        /\ result.error.location = health.error.location
        /\ primaries = u32_add(tries, U32(1))

C5_Witness ==
    /\ arg = None
    /\ pc = "done"
    /\ tries = U32(1)
    /\ IsResponse(resp, {503})
    /\ result = Err(VaultRedirectError(300, [sentinel |-> "", text |-> <<104, 116>>]))

\* the steps of an attempt that ends in a retry, and of the start of the next
C6_Step ==
    /\ (pc = "health" /\ probeIn' # None /\ ~IsResponse(probeIn', 300..399)) =>
        /\ ~IsResponse(resp, 200..499)
        /\ health'.tag = "Ok" \/ health'.error.tag \in
               {"VaultSealed", "VaultNotInitialized", "VaultUnreachable", "VaultOtherError"}
        /\ result' = None
        /\ pc' = "loop"
        /\ tries' = u32_add(tries, U32(1))
        /\ last_attempt' = [primary |-> resp, health |-> health']
    /\ (pc = "loop" /\ pc' # "loop" /\ u32_lt(tries, max_tries)) =>
        /\ pc' \in {"sleep", "primary"}
        /\ result' = None
    /\ (pc = "sleep" /\ pc' # "sleep") =>
        /\ pc' = "primary"
        /\ primaries' = u32_add(primaries, U32(1))

\* a primary 503, a healthy probe, then a primary 2xx
C6_Scenario ==
    ( /\ tries = U32(1)
      /\ last_attempt = [primary |-> Response(503, None), health |-> Ok("unit")]
      /\ IsResponse(resp, 200..299) ) =>
        /\ pc = "done"
        /\ result = Ok(resp)
        /\ primaries = U32(2)
        /\ probes = U32(1)

\* C6: after a primary answer outside 2xx-4xx, every probe outcome but a 3xx
\* answer ends the attempt without a result and moves on to the next one,
\* which is started while attempts are left; a primary 503 with a healthy
\* probe followed by a primary 2xx is 2 primary requests, 1 probe, Success.
C6_ProbeOutcomeRetried ==
    /\ []C6_Scenario
    /\ [][C6_Step]_vars

C6_Witness ==
    /\ pc = "done"
    /\ tries = U32(1)
    /\ last_attempt = [primary |-> Response(503, None), health |-> Ok("unit")]
    /\ result = Ok(Response(200, None))
    /\ primaries = U32(2)
    /\ probes = U32(1)

\* C7: the call returns no other errors than VaultOtherError for a 3xx/4xx
\* primary answer, VaultOtherError for the used-up budget and
\* VaultRedirectError for a redirecting health probe; VaultSealed,
\* VaultNotInitialized and VaultUnreachable are never returned.
C7_ReturnedErrors ==
    /\ result.tag = "Err" =>
          /\ pc = "done"
          /\ result.error.tag \notin {"VaultSealed", "VaultNotInitialized", "VaultUnreachable"}
          /\ \/ /\ IsResponse(resp, 300..499)
                /\ result.error = VaultOtherError("Vault reported client-side error", resp.status)
             \/ /\ tries = max_tries
                /\ result.error = VaultOtherError("Unable to communicate after attempts", max_tries)
             \/ /\ IsResponse(probeIn, 300..399)
                /\ result.error.tag = "VaultRedirectError"
    /\ pc = "done" => result.tag \in {"Ok", "Err"}

C7_Witness ==
    /\ pc = "done"
    /\ arg = Some(U32(2))
    /\ last_attempt = [primary |-> Response(503, None), health |-> Err(VaultSealed)]
    /\ probes = U32(2)
    /\ result.tag = "Err"
    /\ result.error.tag = "VaultOtherError"

\* C8: with max_tries = None the call returns only Success or the error of a
\* 3xx/4xx primary answer or of a redirecting probe, never the exhaustion
\* error.
C8_UnboundedNeverExhausts ==
    (arg = None /\ pc = "done") =>
        \/ result.tag = "Ok"
        \/ result.tag = "Err" /\ IsResponse(resp, 300..499)
        \/ result.tag = "Err" /\ IsResponse(probeIn, 300..399)

\* C9: with max_tries = None, if no primary answer is 3xx/4xx and no probe
\* answer 3xx, and from some point on every primary request is answered 2xx,
\* the call eventually returns Success.
C9_EventuallySuccess ==
    ( /\ arg = None
      /\ <>[]unsealed
      /\ [](~IsResponse(resp, 300..499) /\ ~IsResponse(probeIn, 300..399)) )
        => <>Success

\* the location the health probe is to report for a Location header
C10_Location(hdr) ==
    IF hdr = None
    THEN [sentinel |-> "(no Location header present)", text |-> <<>>]
    ELSE IF \A i \in 1..Len(hdr.value) : hdr.value[i] < 128
    THEN [sentinel |-> "", text |-> hdr.value]
    ELSE [sentinel |-> "(garbled Location header)", text |-> <<>>]

\* C10: check_vault_health classifies the answer of the health request by
\* status code alone: 2xx healthy, 3xx redirected with the Location header
\* or a sentinel for an absent or a non-text one, 501 not initialized,
\* 503 sealed, any other status an other-error naming the code, and a
\* transport failure unreachable.
C10_HealthClassification ==
    probeIn # None =>
        IF probeIn.tag = "TransportError" THEN health = Err([tag |-> "VaultUnreachable"])
        ELSE LET code == probeIn.status
                 hdr == probeIn.location
             IN  /\ code \in 200..299 <=> health = Ok("unit")
                 /\ code \in 300..399 <=>
                        (health.tag = "Err" /\ health.error.tag = "VaultRedirectError")
                 /\ code \in 300..399 =>
                        health.error = [tag |-> "VaultRedirectError", code |-> code,
                                        location |-> C10_Location(hdr)]
                 /\ code = 501 <=> health = Err([tag |-> "VaultNotInitialized"])
                 /\ code = 503 <=> health = Err([tag |-> "VaultSealed"])
                 /\ (code \notin 200..399 /\ code \notin {501, 503}) <=>
                        (health.tag = "Err" /\ health.error.tag = "VaultOtherError")
                 /\ (code \notin 200..399 /\ code \notin {501, 503}) =>
                        health.error.detail = code

C10_Witness ==
    /\ probeIn = Response(399, Some(<<104, 233>>))
    /\ health = Err(VaultRedirectError(399, GarbledLocation))
    /\ pc = "done"

\* C11: every request handed to the client, primary or health, carries the
\* X-Vault-Token header with the configured token and the User-Agent header.
C11_EveryRequestAuthenticated ==
    \A r \in sent :
        /\ <<"X-Vault-Token", CONFIG_CENTRAL.pki_token>> \in r.headers
        /\ <<"User-Agent", SAMPLY_USER_AGENT>> \in r.headers

\* C12: with trust anchors and zero resolvable proxies construction fails
\* with the proxy-misconfiguration error; with no trust anchors and zero
\* proxies it succeeds; no client is built with anchors but without proxies.
C12_AnchorsNeedProxy ==
    new_result # None =>
        LET anchors == build_in.ca_certificates
            zero_proxies == build_in.proxy_env.tag = "Ok" /\ build_in.proxy_env.proxies = <<>>
        IN  /\ (new_builds_client(build_in) /\ anchors # <<>> /\ zero_proxies) =>
                    /\ new_result.tag = "Err"
                    /\ new_result.error.tag = "HttpProxyProblem"
            /\ (new_builds_client(build_in) /\ anchors = <<>> /\ zero_proxies) =>
                    new_result.tag = "Ok"
            /\ new_result.tag = "Ok" =>
                    ~(gateway.hyper_client.tls # None /\ gateway.hyper_client.proxies = <<>>)

\* C18: construction never aborts: it ends in a client or in a
\* ConfigurationFailed / HttpProxyProblem error value, and a failed
\* construction has sent no request.
C18_ConstructionNeverAborts ==
    /\ client_result.tag \in {"None", "Ok", "Err"}
    /\ new_result.tag \in {"None", "Ok", "Err"}
    /\ new_result.tag = "Err" =>
            new_result.error.tag \in {"ConfigurationFailed", "HttpProxyProblem"}
    /\ new_result.tag # "Ok" => sent = {}

\* the data.keys of a list body, as strings
body_keys(doc) ==
    [i \in 1..Len(doc.v["data"].v["keys"].v) |-> doc.v["data"].v["keys"].v[i].v]

\* a JSON object with at least data.keys, an array of strings
HasDataKeys(b) ==
    /\ b.tag = "Ok"
    /\ b.value.t = "obj"
    /\ "data" \in DOMAIN b.value.v
    /\ key_holder(b.value.v["data"])

\* C13: certificate_list, answered 2xx with a JSON object that has at least
\* data.keys, returns exactly the data.keys sequence, whatever other
\* top-level fields are present or absent.
C13_ListRoundTrip ==
    (op.name = "certificate_list" /\ Success /\ ret # None /\ HasDataKeys(body)) =>
        ret = Ok(body_keys(body.value))

NotUtf8 == {<<255>>, <<45, 195>>, <<192, 128>>, <<237, 160, 128>>, <<45, 128>>}

C14_Outcome ==
    (is_gateway_call(op) /\ Success /\ ret # None) =>
        /\ inflight = {}
        /\ ret.tag = "Ok" \/ (ret.tag = "Err" /\ ret.error.tag = "VaultOtherError")
        /\ (body.tag = "Ok" /\ op.name # "certificate_list") =>
                IF body.value \in NotUtf8 THEN ret.tag = "Err" ELSE ret = Ok(body.value)
        /\ (body.tag = "Ok" /\ op.name = "certificate_list") =>
                /\ body.value.t # "obj" => ret.tag = "Err"
                /\ ret.tag = "Ok" => (HasDataKeys(body) /\ ret.value = body_keys(body.value))

C14_Step ==
    Success =>
        /\ Success'
        /\ result' = result
        /\ sent' = sent
        /\ inflight' = inflight
        /\ primaries' = primaries
        /\ probes' = probes
        /\ sleeps' = sleeps
        /\ (ret # None => ret' = ret)

\* C14: once resilient_vault_request has returned Ok to a gateway method, no
\* further request is sent and the call is never re-entered; the method
\* returns the whole parsed result (the body unchanged for the PEM methods)
\* or one VaultOtherError, which it does when the body is not JSON or not
\* UTF-8.
C14_ParsingFailuresFatal == []C14_Outcome /\ [][C14_Step]_vars

C14_Witness ==
    /\ Success
    /\ op.name = "im_certificate_as_pem"
    /\ body = Ok(<<45, 195>>)
    /\ ret.tag = "Err"
    /\ primaries = U32(1)

\* the requests one call has in flight, given its position and last response
OneAtATime(call_pc, call_resp, call_inflight) ==
    /\ Cardinality(call_inflight) <= 1
    /\ call_pc = "primary" => call_inflight = {primary_request(op.method, uri)}
    /\ call_pc = "health" => call_inflight = {health_request}
    /\ call_pc \notin {"primary", "health"} => call_inflight = {}
    /\ health_request \in call_inflight =>
            /\ call_resp.tag = "Response"
            /\ primary_arm(call_resp.status) = "check_health"

C15_State ==
    /\ OneAtATime(pc, resp, inflight)
    /\ OneAtATime(other.pc, other.resp, other.inflight)

C15_Step ==
    /\ other' # other => first_call' = first_call
    /\ first_call' # first_call => other' = other
    /\ u32_le(primaries, primaries') /\ u32_le(other.primaries, other'.primaries)
    /\ (other.pc # "primary" /\ other'.pc = "primary") =>
            other'.primaries = u32_add(other.primaries, U32(1))
    /\ (pc # "primary" /\ pc' = "primary") => primaries' = u32_add(primaries, U32(1))

\* C15: a call has at most one request in flight, the primary or the probe,
\* and the probe only after the primary request was answered; two
\* concurrent calls each run their own loop and send their own requests,
\* also when the requests are equal, and no step of one changes the other.
C15_OneRequestInFlight == []C15_State /\ [][C15_Step]_vars

C15_Witness ==
    /\ pc = "primary"
    /\ other.pc = "primary"
    /\ inflight = {primary_request(op.method, uri)}
    /\ other.inflight = inflight
    /\ tries = U32(1)
    /\ other.probes = U32(1)

C16_State ==
    /\ primaries = U32(0) => sleeps = U32(0)
    /\ (u32_lt(U32(0), primaries) /\ pc # "sleep") => sleeps = u32_sub(primaries, U32(1))
    /\ pc = "sleep" => (u32_lt(U32(0), primaries) /\ sleeps = primaries)

C16_Step ==
    /\ (pc = "sleep" /\ pc' # "sleep") =>
            (pc' = "primary" /\ primaries' = u32_add(primaries, U32(1)) /\ sleeps' = sleeps)
    /\ pc \in {"done", "panicked"} => sleeps' = sleeps

\* C16: a sleep precedes every primary request but the first and none
\* follows the last: with at least one primary request sent, the sleeps
\* number one less than the primary requests, and a started sleep is always
\* followed by a primary request.
C16_SleepsBetweenPrimaries == []C16_State /\ [][C16_Step]_vars

C16_Witness ==
    /\ pc = "done"
    /\ result.tag = "Err"
    /\ primaries = U32(3)
    /\ sleeps = U32(2)

C17_Step ==
    pc = "health" =>
        /\ health_gets' = health_gets
        /\ probes' = probes
        /\ sleeps' = sleeps
        /\ primaries' = primaries
        /\ pc' # "health" => (health'.tag # "None" /\ health_request \notin inflight')

C17_State ==
    /\ health_gets = probes
    /\ pc = "health" => inflight = {health_request}

\* C17: check_vault_health is single-shot: every call of it sends exactly
\* one GET sys/health, and while it runs nothing is sent again and nothing
\* sleeps, whatever the answer.
C17_HealthSingleShot == []C17_State /\ [][C17_Step]_vars

C17_Witness ==
    /\ health = Err(VaultSealed)
    /\ probes = U32(1)
    /\ health_gets = U32(1)
    /\ pc = "loop"

C19_State ==
    /\ u32_le(probes, primaries)
    /\ pc = "primary" => u32_lt(probes, primaries)
    /\ pc = "health" =>
            /\ resp.tag = "Response"
            /\ resp.status \notin 200..499

C19_Step ==
    probes' # probes =>
        /\ probes' = u32_add(probes, U32(1))
        /\ primaries' = primaries
        /\ pc = "primary" /\ pc' = "health"
        /\ resp'.tag = "Response"
        /\ resp'.status \notin 200..499

\* C19: health probes never outnumber primary requests: a probe is sent
\* only right after a primary request was answered with a status outside
\* 2xx, 3xx and 4xx, at most once per attempt, and never after a transport
\* failure.
C19_ProbesFollowPrimaries == []C19_State /\ [][C19_Step]_vars

C19_Witness ==
    /\ pc = "health"
    /\ resp = Response(500, None)
    /\ probes = U32(2)
    /\ primaries = U32(2)

C20_State ==
    /\ gateway = GetCertsFromPki(client_result.value)
    /\ \A r \in sent :
            r # health_request =>
                (r.method = op.method /\ r.uri = pki_url_builder(op.api_path))
    /\ \A r1, r2 \in sent :
            (r1 # health_request /\ r2 # health_request) =>
                (r1.method = r2.method /\ r1.uri = r2.uri)

C20_Step == gateway' = gateway /\ op' = op /\ arg' = arg

\* C20: no gateway method and no attempt changes the realm or the client
\* of the value it is called on, and all primary requests of one call have
\* the method and the URL of the first.
C20_SameRequestEveryAttempt == []C20_State /\ [][C20_Step]_vars

C20_Witness ==
    /\ pc = "primary"
    /\ tries = U32(2)
    /\ primaries = U32(3)
    /\ op.name = "certificate_by_serial_as_pem"
    /\ last_attempt.primary = TransportError

====
